---- MODULE Spec2Model ----
(***************************************************************************)
(* Model of the request / response-classification core of the Paystack     *)
(* client: BaseClient.request and BaseClient._handle_success_response      *)
(* (paystack/core.py) and create_error_from_response (exceptions.py),      *)
(* driven by three resource calls (TransactionsAPI.verify,                 *)
(* RefundsAPI.fetch, TransfersAPI.fetch_transfer).                         *)
(*                                                                         *)
(* Python values are encoded as records of one shape, so that any two can  *)
(* be compared:                                                            *)
(*   scalars      [type, int, str]          (None, bool, int, str, or the  *)
(*                                            marker of a key that is not  *)
(*                                            in its mapping)              *)
(*   JSON bodies  [shape, status, message, data, meta, errors]             *)
(* A message is a sequence of string parts (an f-string's pieces).         *)
(***************************************************************************)
EXTENDS Integers, Sequences, FiniteSets, TLC

VARIABLES
    pc,             \* position of the caller: "idle", "sent" (inside session.request), "done"
    call,           \* the resource call in progress: [api, method, endpoint, arg]
    exchange,       \* what session.request gave back: nothing yet, a response, or an exception
    outcome,        \* what the call gave its caller: a returned pair or a raised error
    requests_sent,  \* number of session.request calls issued so far
    invocations,    \* number of times BaseClient.request was entered so far
    clients,        \* the client objects constructed so far, by slot
    sessions,       \* the requests.Session objects: their default headers
    threads,        \* callers running BaseClient.request side by side, each with its locals
    probe           \* the latest call of a validator or of a method with local checks

vars == <<pc, call, exchange, outcome, requests_sent, invocations,
          clients, sessions, threads, probe>>

\* Longest sequence of calls the model follows.
MaxCalls == 2

---------------------------------------------------------------------------
\* Python scalars.

PyNone == [type |-> "NoneType", int |-> 0, str |-> ""]
Missing == [type |-> "missing", int |-> 0, str |-> ""]   \* key not in the mapping / header not sent
PyTrue == [type |-> "bool", int |-> 1, str |-> ""]
PyFalse == [type |-> "bool", int |-> 0, str |-> ""]
PyInt(n) == [type |-> "int", int |-> n, str |-> ""]
PyStr(s) == [type |-> "str", int |-> 0, str |-> s]

\* bool(v): Python truthiness.
Truthy(v) ==
    CASE v.type = "NoneType" -> FALSE
      [] v.type = "missing" -> FALSE
      [] v.type = "str" -> v.str # ""
      [] OTHER -> v.int # 0

\* mapping.get(key): None for a key that is not there.
Get(v) == IF v = Missing THEN PyNone ELSE v

\* mapping.get(key, default)
GetOr(v, default) == IF v = Missing THEN default ELSE v

\* str(v) as an f-string renders it.
Fmt(v) ==
    CASE v.type = "str" -> v.str
      [] v.type = "int" -> ToString(v.int)
      [] v.type = "bool" -> IF v.int = 1 THEN "True" ELSE "False"
      [] OTHER -> "None"

---------------------------------------------------------------------------
\* JSON values on the wire.

\* A JSON field that holds a mapping: not there, a mapping (its items as
\* <<key, value>> pairs), or a list.
NoMapping == [shape |-> "absent", items |-> {}]
EmptyDict == [shape |-> "dict", items |-> {}]
Dict(items) == [shape |-> "dict", items |-> items]
ErrorsValues ==
    { NoMapping,
      EmptyDict,
      Dict({<<"email", "Invalid email address">>}),
      [shape |-> "list", items |-> {}] }
MetaValues == { NoMapping, Dict({<<"total", "50">>}) }

\* The data field: not there, a list, or a mapping with optional status and gateway_response.
NoData == [shape |-> "absent", status |-> Missing, gateway_response |-> Missing]
NoneData == [shape |-> "NoneType", status |-> Missing, gateway_response |-> Missing]
DataStatusValues == {"success", "failed", "abandoned", "cancelled"}
DataValues ==
    { NoData, [shape |-> "list", status |-> Missing, gateway_response |-> Missing] }
    \cup [ shape : {"dict"},
           status : {Missing} \cup {PyStr(s) : s \in DataStatusValues},
           gateway_response : {Missing, PyStr("Insufficient funds")} ]

\* A body that is not JSON, a JSON list, and the JSON objects.
WithShape(shape) ==
    [shape |-> shape, status |-> Missing, message |-> Missing, data |-> NoData,
     meta |-> NoMapping, errors |-> NoMapping]
Garbage == WithShape("garbage")
ListBody == WithShape("list")
EmptyBody == WithShape("dict")
DictBodies ==
    [ shape : {"dict"},
      status : {Missing, PyTrue, PyFalse, PyNone},
      message : {Missing, PyStr("Declined")},
      data : DataValues,
      meta : MetaValues,
      errors : ErrorsValues ]
Bodies == {Garbage, ListBody} \cup DictBodies

StatusCodes == {200, 201, 202, 299, 300, 400, 401, 404, 429, 499, 500, 599}

\* Header text is a sequence of characters, so that int() can read it.
NoHeader == [present |-> FALSE, text |-> << >>]
Header(text) == [present |-> TRUE, text |-> text]

\* Response headers the client reads; Retry-After comes with 429 only.
RetryAfterValues(code) ==
    IF code = 429
    THEN {NoHeader, Header(<<"1", "2", "0">>), Header(<<"a", "b", "c">>), Header(<< >>)}
    ELSE {NoHeader}
Responses ==
    UNION { [ status_code : {code},
              amzn : {Missing, PyStr("amzn-1")},
              cfray : {Missing, PyStr("ray-1")},
              retry_after : RetryAfterValues(code),
              body : Bodies ] : code \in StatusCodes }

---------------------------------------------------------------------------
\* Outcomes of BaseClient.request.

ErrorKinds ==
    {"AuthenticationError", "ValidationError", "NotFoundError", "RateLimitError",
     "ServerError", "APIError", "NetworkError", "InvalidResponseError",
     "TransactionFailureError"}

NoOutcome ==
    [ returned |-> FALSE, data |-> NoneData, meta |-> NoMapping,
      raised |-> "none", message |-> << >>, status_code |-> PyNone,
      request_id |-> PyNone, response |-> EmptyBody, field_errors |-> EmptyDict,
      retry_after |-> PyNone, gateway_response |-> PyNone ]

\* return data, meta
Return(data, meta) == [NoOutcome EXCEPT !.returned = TRUE, !.data = data, !.meta = meta]

\* PaystackError.__init__: message, status_code, response or {}, request_id
PaystackError(kind, message, status_code, response, request_id) ==
    [NoOutcome EXCEPT !.raised = kind, !.message = message, !.status_code = status_code,
                      !.response = IF response.shape = "dict" THEN response ELSE EmptyBody,
                      !.request_id = request_id]

\* A constructor that forgets the field errors it is given.
ValidationError_drops_field_errors(message, field_errors, status_code, response, request_id) ==
    PaystackError("ValidationError", message, status_code, response, request_id)

\* ValidationError.__init__: field_errors or {}
ValidationError(message, field_errors, status_code, response, request_id) ==
    [PaystackError("ValidationError", message, status_code, response, request_id)
        EXCEPT !.field_errors = IF field_errors.shape = "dict" THEN field_errors ELSE EmptyDict]

\* RateLimitError.__init__
RateLimitError(message, retry_after, status_code, response, request_id) ==
    [PaystackError("RateLimitError", message, status_code, response, request_id)
        EXCEPT !.retry_after = retry_after]

\* TransactionFailureError.__init__
TransactionFailureError(message, gateway_response, status_code, response, request_id) ==
    [PaystackError("TransactionFailureError", message, status_code, response, request_id)
        EXCEPT !.gateway_response = gateway_response]

---------------------------------------------------------------------------
\* create_error_from_response (exceptions.py).

Digits == <<"0", "1", "2", "3", "4", "5", "6", "7", "8", "9">>
IsDigit(c) == \E i \in 1..10 : Digits[i] = c
DigitValue(c) == (CHOOSE i \in 1..10 : Digits[i] = c) - 1

RECURSIVE DecimalValue(_)
DecimalValue(text) ==
    IF text = << >> THEN 0
    ELSE 10 * DecimalValue(SubSeq(text, 1, Len(text) - 1)) + DigitValue(text[Len(text)])

\* int(text): the value of a decimal literal, ValueError for anything else.
IsIntLiteral(text) == text # << >> /\ \A i \in 1..Len(text) : IsDigit(text[i])

\* The retry_after of a RateLimitError, from the Retry-After header.
RetryAfter(header) ==
    IF ~header.present THEN PyNone
    ELSE IF header.text = << >> THEN PyStr("")
    ELSE IF IsIntLiteral(header.text) THEN PyInt(DecimalValue(header.text))
    ELSE PyNone

\* The two things request hands to the factory: the response object (429) or the parsed body.
ResponseObject(resp) == [obj |-> TRUE, json |-> resp.body, retry_after |-> resp.retry_after]
ParsedBody(resp_json) == [obj |-> FALSE, json |-> resp_json, retry_after |-> NoHeader]

\* A factory with no final else: it returns None for the codes it does not name, and
\* raise None is a TypeError.
ErrorClass_no_else(status_code) ==
    CASE status_code = 400 -> "ValidationError"
      [] status_code = 401 -> "AuthenticationError"
      [] status_code = 404 -> "NotFoundError"
      [] status_code = 429 -> "RateLimitError"
      [] 500 <= status_code /\ status_code <= 599 -> "ServerError"
      [] OTHER -> "TypeError"

\* A server-error range that stops one short.
ErrorClass_short_range(status_code) ==
    CASE status_code = 400 -> "ValidationError"
      [] status_code = 401 -> "AuthenticationError"
      [] status_code = 404 -> "NotFoundError"
      [] status_code = 429 -> "RateLimitError"
      [] 500 <= status_code /\ status_code < 599 -> "ServerError"
      [] OTHER -> "APIError"

\* The if / elif chain on status_code: the class of the error the factory returns.
ErrorClass(status_code) ==
    IF status_code = 400 THEN "ValidationError"
    ELSE IF status_code = 401 THEN "AuthenticationError"
    ELSE IF status_code = 404 THEN "NotFoundError"
    ELSE IF status_code = 429 THEN "RateLimitError"
    ELSE IF 500 <= status_code /\ status_code <= 599 THEN "ServerError"
    ELSE "APIError"

create_error_from_response(response, status_code, request_id) ==
    LET default == <<"HTTP ", ToString(status_code), " error">>
        \* response.json() of an object, the mapping itself, or {}; a body that is no
        \* mapping makes data.get raise AttributeError, which leaves message default, data {}
        data == IF response.json.shape = "dict" THEN response.json ELSE EmptyBody
        message == IF data.message = Missing THEN default ELSE <<Fmt(data.message)>>
        field_errors == IF data.errors.shape = "dict" THEN data.errors ELSE NoMapping
        kind == ErrorClass(status_code)
    IN  IF kind = "ValidationError"
        THEN ValidationError(message, field_errors, PyInt(status_code), data, request_id)
        ELSE IF kind = "RateLimitError"
        THEN RateLimitError(message,
                            IF response.obj THEN RetryAfter(response.retry_after) ELSE PyNone,
                            PyInt(status_code), data, request_id)
        ELSE PaystackError(kind, message, PyInt(status_code), data, request_id)

---------------------------------------------------------------------------
\* BaseClient._handle_success_response (core.py).

\* A marker list that leaves "cancelled" out.
TerminalStatuses_without_cancelled == {"failed", "abandoned"}

\* ["failed", "abandoned", "cancelled"]
TerminalStatuses == {"failed", "abandoned", "cancelled"}

\* A test that takes only a null status for the provider's "no".
IsFalse_only_none(v) == v = PyNone

\* paystack_status is False
IsFalse(v) == v = PyFalse

\* A lookup that forgets its default.
GetMappingOr_no_default(v, default) == v

\* mapping.get(key, default), for a field that holds a mapping
GetMappingOr(v, default) == IF v = NoMapping THEN default ELSE v

\* type(resp_json) as the f-string prints it
TypeName(resp_json) == IF resp_json.shape = "list" THEN "<class 'list'>" ELSE "<class 'dict'>"

\* A shape rule that rejects only a body with neither field.
LacksEnvelopeFields_both(resp_json) ==
    resp_json.status = Missing /\ resp_json.message = Missing

\* "status" not in resp_json or "message" not in resp_json
LacksEnvelopeFields(resp_json) ==
    resp_json.status = Missing \/ resp_json.message = Missing

_handle_success_response(resp_json, status_code, request_id) ==
    IF resp_json.shape # "dict"
    THEN PaystackError("InvalidResponseError",
                       <<"Expected JSON object, got ", TypeName(resp_json)>>,
                       PyInt(status_code), EmptyBody, request_id)
    ELSE IF LacksEnvelopeFields(resp_json)
    THEN PaystackError("InvalidResponseError",
                       <<"Invalid Paystack response structure: missing 'status' or 'message'">>,
                       PyInt(status_code), resp_json, request_id)
    ELSE IF IsFalse(GetOr(resp_json.status, PyFalse))
    THEN LET error_message == GetOr(resp_json.message, PyStr("Unknown API error"))
         IN  IF resp_json.errors.shape = "dict"
             THEN ValidationError(<<Fmt(error_message)>>, resp_json.errors,
                                  PyInt(status_code), resp_json, request_id)
             ELSE PaystackError("APIError", <<"API request failed: ", Fmt(error_message)>>,
                                PyInt(status_code), resp_json, request_id)
    ELSE LET data == IF resp_json.data = NoData THEN NoneData ELSE resp_json.data
             transaction_status == Get(data.status)
         IN  IF /\ data.shape = "dict"
                /\ transaction_status.type = "str"
                /\ transaction_status.str \in TerminalStatuses
             THEN TransactionFailureError(
                      <<"Transaction failed: ", Fmt(transaction_status)>>,
                      GetOr(data.gateway_response, PyStr("Transaction failed")),
                      PyInt(status_code), resp_json, request_id)
             ELSE Return(data, GetMappingOr(resp_json.meta, EmptyDict))

---------------------------------------------------------------------------
\* BaseClient.request (core.py).

\* timeout: int = 10
DefaultTimeout == 10

\* A lookup that prefers cf-ray.
RequestId_cfray_first(resp) ==
    IF Truthy(Get(resp.cfray)) THEN Get(resp.cfray) ELSE Get(resp.amzn)

\* response.headers.get("x-amzn-requestid") or response.headers.get("cf-ray")
RequestId(resp) == IF Truthy(Get(resp.amzn)) THEN Get(resp.amzn) ELSE Get(resp.cfray)

\* The text of the error response.json() raises on a body that is not JSON.
ParseErrorText == "Expecting value: line 1 column 1 (char 0)"

\* A request that looks at the status code before it parses the body.
request_status_first(resp) ==
    LET request_id == RequestId(resp)
    IN  IF resp.status_code \notin {200, 201}
        THEN create_error_from_response(ResponseObject(resp), resp.status_code, request_id)
        ELSE IF resp.body.shape = "garbage"
        THEN PaystackError("InvalidResponseError", <<"Invalid JSON response: ", ParseErrorText>>,
                           PyInt(resp.status_code), EmptyBody, request_id)
        ELSE _handle_success_response(resp.body, resp.status_code, request_id)

\* The try block once session.request has returned a response.
request(resp) ==
    LET request_id == RequestId(resp)
    IN  IF resp.body.shape = "garbage"
        THEN PaystackError("InvalidResponseError", <<"Invalid JSON response: ", ParseErrorText>>,
                           PyInt(resp.status_code), EmptyBody, request_id)
        ELSE LET resp_json == resp.body
             IN  IF resp.status_code \in {200, 201}
                 THEN _handle_success_response(resp_json, resp.status_code, request_id)
                 ELSE IF resp.status_code = 429
                 THEN create_error_from_response(ResponseObject(resp), resp.status_code,
                                                 request_id)
                 ELSE create_error_from_response(ParsedBody(resp_json), resp.status_code,
                                                 request_id)

\* The exceptions session.request raises, with their base classes in requests.exceptions.
TransportExceptions ==
    {"ConnectTimeout", "ReadTimeout", "ConnectionError", "Timeout", "TooManyRedirects"}
Bases(exc) ==
    CASE exc = "ConnectTimeout" -> {"ConnectTimeout", "ConnectionError", "Timeout",
                                    "RequestException"}
      [] exc = "ReadTimeout" -> {"ReadTimeout", "Timeout", "RequestException"}
      [] OTHER -> {exc, "RequestException"}

\* A handler without the last except clause: what the first three do not take escapes.
request_failed_no_catch_all(exc, timeout) ==
    IF "ConnectTimeout" \in Bases(exc)
    THEN PaystackError("NetworkError",
                       <<"Connection timed out - check your internet connection">>,
                       PyNone, EmptyBody, PyNone)
    ELSE IF "ReadTimeout" \in Bases(exc)
    THEN PaystackError("NetworkError",
                       <<"Request timed out after ", ToString(timeout), " seconds">>,
                       PyNone, EmptyBody, PyNone)
    ELSE IF "ConnectionError" \in Bases(exc)
    THEN PaystackError("NetworkError", <<"Connection error: ", exc>>,
                       PyNone, EmptyBody, PyNone)
    ELSE PaystackError(exc, <<exc>>, PyNone, EmptyBody, PyNone)

\* A handler whose clause for ConnectionError comes first.
request_failed_connection_first(exc, timeout) ==
    IF "ConnectionError" \in Bases(exc)
    THEN PaystackError("NetworkError", <<"Connection error: ", exc>>,
                       PyNone, EmptyBody, PyNone)
    ELSE IF "ConnectTimeout" \in Bases(exc)
    THEN PaystackError("NetworkError",
                       <<"Connection timed out - check your internet connection">>,
                       PyNone, EmptyBody, PyNone)
    ELSE IF "ReadTimeout" \in Bases(exc)
    THEN PaystackError("NetworkError",
                       <<"Request timed out after ", ToString(timeout), " seconds">>,
                       PyNone, EmptyBody, PyNone)
    ELSE PaystackError("NetworkError", <<"Request failed: ", exc>>,
                       PyNone, EmptyBody, PyNone)

\* The except clauses, in order; the first whose class the exception has takes it.
request_failed(exc, timeout) ==
    IF "ConnectTimeout" \in Bases(exc)
    THEN PaystackError("NetworkError",
                       <<"Connection timed out - check your internet connection">>,
                       PyNone, EmptyBody, PyNone)
    ELSE IF "ReadTimeout" \in Bases(exc)
    THEN PaystackError("NetworkError",
                       <<"Request timed out after ", ToString(timeout), " seconds">>,
                       PyNone, EmptyBody, PyNone)
    ELSE IF "ConnectionError" \in Bases(exc)
    THEN PaystackError("NetworkError", <<"Connection error: ", exc>>,
                       PyNone, EmptyBody, PyNone)
    ELSE PaystackError("NetworkError", <<"Request failed: ", exc>>,
                       PyNone, EmptyBody, PyNone)

\* A request that tries once more after an error a caller would retry.
Retries_on_retryable(result) ==
    IF result.raised \in {"ServerError", "RateLimitError", "NetworkError"} THEN 1 ELSE 0

\* session.request calls that follow the first one, given its result: request has no
\* loop, and every raise leaves it.
Retries(result) == 0

---------------------------------------------------------------------------
\* BaseClient._validate_required_params (core.py).  A parameter value is None,
\* an int, or a str given as its sequence of characters.

ParamNone == [type |-> "NoneType", chars |-> << >>]
ParamInt == [type |-> "int", chars |-> <<"7">>]
ParamStr(chars) == [type |-> "str", chars |-> chars]
ParamValues == {ParamNone, ParamInt, ParamStr(<< >>), ParamStr(<<" ", " ">>),
                ParamStr(<<"r", "1">>)}

Whitespace == {" ", "\t", "\n", "\r"}

\* A test that takes a blank string for a value.
IsMissingParam_no_strip(value) ==
    \/ value.type = "NoneType"
    \/ value.type = "str" /\ value.chars = << >>

\* param_value is None or (isinstance(param_value, str) and not param_value.strip())
IsMissingParam(value) ==
    \/ value.type = "NoneType"
    \/ value.type = "str" /\ \A i \in 1..Len(value.chars) : value.chars[i] \in Whitespace

RECURSIVE Join(_)
Join(names) ==
    IF Len(names) = 0 THEN << >>
    ELSE IF Len(names) = 1 THEN names
    ELSE <<names[1], ", ">> \o Join(Tail(names))

\* kwargs is the sequence of [name, value] in call order; the result is the error raised,
\* or NoOutcome when nothing is raised.
_validate_required_params(kwargs) ==
    LET IsMissing(kw) == IsMissingParam(kw.value)
        missing == SelectSeq(kwargs, IsMissing)
        missing_params == [i \in 1..Len(missing) |-> missing[i].name]
    IN  IF Len(missing_params) > 0
        THEN ValidationError(
                 <<"Missing required parameters: ">> \o Join(missing_params),
                 Dict({<<missing_params[i], "This field is required">> :
                          i \in 1..Len(missing_params)}),
                 PyNone, EmptyBody, PyNone)
        ELSE NoOutcome

---------------------------------------------------------------------------
\* BaseClient._validate_amount (core.py).

\* An int argument, as the characters of its decimal form.
ParamIntOf(chars) == [type |-> "int", chars |-> chars]

\* str.strip(): leading and trailing whitespace removed
RECURSIVE Lstripped(_)
Lstripped(text) ==
    IF text # << >> /\ Head(text) \in Whitespace THEN Lstripped(Tail(text)) ELSE text
RECURSIVE Rstripped(_)
Rstripped(text) ==
    IF text # << >> /\ text[Len(text)] \in Whitespace
    THEN Rstripped(SubSeq(text, 1, Len(text) - 1))
    ELSE text
Strip(text) == Rstripped(Lstripped(text))

\* The digits of an integer literal, after the sign: digits, with single underscores
\* allowed between them.
IsDigitGroup(body) ==
    /\ body # << >>
    /\ \A i \in 1..Len(body) : IsDigit(body[i]) \/ body[i] = "_"
    /\ body[1] # "_" /\ body[Len(body)] # "_"
    /\ \A i \in 1..(Len(body) - 1) : ~(body[i] = "_" /\ body[i + 1] = "_")

Unsigned(text) == IF text # << >> /\ Head(text) \in {"+", "-"} THEN Tail(text) ELSE text

\* int(amount) raises ValueError (a str that is no integer literal) or TypeError (None).
IntFails(value) ==
    \/ value.type = "NoneType"
    \/ ~IsDigitGroup(Unsigned(Strip(value.chars)))

\* int(amount), when it does not raise
IntOf(value) ==
    LET text == Strip(value.chars)
        magnitude == DecimalValue(SelectSeq(Unsigned(text), IsDigit))
    IN  IF Head(text) = "-" THEN 0 - magnitude ELSE magnitude

\* A table that asks 50 of every currency.
MinAmount_fifty(currency) == 50

\* min_amounts.get(currency, 100)
MinAmount(currency) ==
    CASE currency = "NGN" -> 100
      [] currency = "USD" -> 50
      [] currency = "GHS" -> 100
      [] OTHER -> 100

\* The error raised, or NoOutcome when the amount is accepted.
_validate_amount(amount, currency) ==
    IF IntFails(amount)
    THEN ValidationError(
             <<"Amount must be a valid integer or string representation of an integer">>,
             Dict({<<"amount", "Must be a valid integer value">>}),
             PyNone, EmptyBody, PyNone)
    ELSE IF IntOf(amount) < MinAmount(currency)
    THEN ValidationError(
             <<"Amount too small for ", currency>>,
             Dict({<<"amount", "Minimum amount is " \o ToString(MinAmount(currency))
                               \o " " \o currency \o " subunits">>}),
             PyNone, EmptyBody, PyNone)
    ELSE NoOutcome

Currencies == {"NGN", "USD", "GHS", "KES"}
AmountValues ==
    { ParamNone, ParamIntOf(<<"0">>), ParamIntOf(<<"-", "5">>), ParamIntOf(<<"4", "9">>), ParamIntOf(<<"5", "0">>), ParamIntOf(<<"9", "9">>), ParamIntOf(<<"1", "0", "0">>), ParamIntOf(<<"1", "5", "0">>),
      ParamStr(<<"1", "0", "0">>),
      ParamStr(<<" ", "1", "0", "0", "\n">>),
      ParamStr(<<"+", "1", "0", "0">>),
      ParamStr(<<"1", "_", "0", "0", "0">>),
      ParamStr(<<"9", "9">>),
      ParamStr(<<"5", "0">>),
      ParamStr(<<"0">>),
      ParamStr(<<"-", "1", "0", "0">>),
      ParamStr(<<"1", "0", ".", "0">>),
      ParamStr(<<"1", ",", "0", "0", "0">>),
      ParamStr(<<"$", "1", "0", "0">>),
      ParamStr(<<"a", "b", "c">>),
      ParamStr(<< >>),
      ParamStr(<<"1", "_", "_", "0">>),
      ParamStr(<<"1", "e", "3">>) }

---------------------------------------------------------------------------
\* validate_email (utils/helpers.py) and BaseClient._validate_email (core.py).

\* len(email) > 254
MaxEmailLength == 254

Letters ==
    { "a", "b", "c", "d", "e", "f", "g", "h", "i", "j", "k", "l", "m", "n", "o", "p", "q",
      "r", "s", "t", "u", "v", "w", "x", "y", "z", "A", "B", "C", "D", "E", "F", "G", "H",
      "I", "J", "K", "L", "M", "N", "O", "P", "Q", "R", "S", "T", "U", "V", "W", "X", "Y",
      "Z" }
\* [a-zA-Z0-9._%+-] and [a-zA-Z0-9.-]
LocalChars == Letters \cup {Digits[i] : i \in 1..10} \cup {".", "_", "%", "+", "-"}
DomainChars == Letters \cup {Digits[i] : i \in 1..10} \cup {".", "-"}

AllIn(text, from, to, chars) == \A i \in from..to : text[i] \in chars

\* The whole text is [local]+ @ [domain]+ . [letters]{2,}.  No class holds "@" and the
\* last class holds no ".", so the "@" is the first one and the "." the last one.
FullMatch(text) ==
    /\ \E i \in 1..Len(text) : text[i] = "@"
    /\ \E i \in 1..Len(text) : text[i] = "."
    /\ LET at == CHOOSE i \in 1..Len(text) :
                     text[i] = "@" /\ \A k \in 1..(i - 1) : text[k] # "@"
           dot == CHOOSE i \in 1..Len(text) :
                      text[i] = "." /\ \A k \in (i + 1)..Len(text) : text[k] # "."
       IN  /\ at > 1 /\ AllIn(text, 1, at - 1, LocalChars)
           /\ dot > at + 1 /\ AllIn(text, at + 1, dot - 1, DomainChars)
           /\ Len(text) - dot >= 2 /\ AllIn(text, dot + 1, Len(text), Letters)

\* re.match(pattern, email): ^ is the start of the string, $ the end of the string or
\* the place before a newline that ends the string.
ReMatch(text) ==
    \/ FullMatch(text)
    \/ /\ text # << >>
       /\ text[Len(text)] = "\n"
       /\ FullMatch(SubSeq(text, 1, Len(text) - 1))

\* not email or not isinstance(email, str) or len(email) > 254
EmailRequired(email) ==
    \/ email.type = "NoneType"
    \/ email.type = "str" /\ email.chars = << >>
    \/ email.type = "int" /\ email.chars = <<"0">>
    \/ email.type # "str"
    \/ Len(email.chars) > MaxEmailLength

\* helpers.validate_email
validate_email(email) ==
    IF EmailRequired(email)
    THEN ValidationError(<<"Email is required">>,
                         Dict({<<"email", "Email address is required">>}),
                         PyNone, EmptyBody, PyNone)
    ELSE IF ~ReMatch(email.chars)
    THEN ValidationError(<<"Invalid email format">>,
                         Dict({<<"email", "Please provide a valid email address">>}),
                         PyNone, EmptyBody, PyNone)
    ELSE NoOutcome

\* BaseClient._validate_email
_validate_email(email) ==
    IF EmailRequired(email)
    THEN ValidationError(<<"Email is required">>,
                         Dict({<<"email", "Email address is required">>}),
                         PyNone, EmptyBody, PyNone)
    ELSE IF ~ReMatch(email.chars)
    THEN ValidationError(<<"Invalid email format">>,
                         Dict({<<"email", "Please provide a valid email address">>}),
                         PyNone, EmptyBody, PyNone)
    ELSE NoOutcome

\* An address of the given length: a local part of a's, then @b.co.
LongEmail(length) == ParamStr([i \in 1..(length - 5) |-> "a"] \o <<"@", "b", ".", "c", "o">>)
EmailValues ==
    { ParamNone, ParamInt, ParamIntOf(<<"0">>),
      LongEmail(MaxEmailLength), LongEmail(MaxEmailLength + 1),
      ParamStr([i \in 1..(MaxEmailLength + 1) |-> "a"]),
      ParamStr(<< >>),
      ParamStr(<<"a", "@", "b", ".", "c", "o">>),
      ParamStr(<<"a", "@", "b", ".", "c", "o", "\n">>),
      ParamStr(<<"a", "@", "b", ".", "c", "o", "\n", "\n">>),
      ParamStr(<<"a", "@", "b", ".", "c", "o", " ">>),
      ParamStr(<<"a", "@", "b", ".", "c">>),
      ParamStr(<<"a", "@", "b", ".", ".", "c", "o">>),
      ParamStr(<<"a", "@", ".", "c", "o">>),
      ParamStr(<<"@", "b", ".", "c", "o">>),
      ParamStr(<<"a", " ", "b", "@", "c", ".", "c", "o">>),
      ParamStr(<<"a", "b", ".", "c", "o">>),
      ParamStr(<<"a", "@", "b", "c", "o">>),
      ParamStr(<<"a", "@", "b", ".", "c", "0">>),
      ParamStr(<<"u", ".", "s", "+", "r", "%", "@", "d", "-", "1", ".", "e", "x", "a", "m", "p", "l", "e", ".", "C", "O", "M">>),
      ParamStr(<<"a", "@", "@", "b", ".", "c", "o">>) }

\* Nothing validated yet.
NoProbe == [fn |-> "none", input |-> << >>, result |-> NoOutcome, sent |-> 0]

---------------------------------------------------------------------------
\* BaseClient.__init__ (core.py) and the constructors of the resource clients.

\* Nothing called, nothing received yet.
NoCall == [api |-> "none", method |-> "", endpoint |-> "", arg |-> ParamNone]
NoResponse ==
    [status_code |-> 0, amzn |-> Missing, cfray |-> Missing, retry_after |-> NoHeader,
     body |-> Garbage]
NoExchange == [kind |-> "none", resp |-> NoResponse, exc |-> "none"]

ClientIds == {"c1", "c2"}
ThreadIds == {"t1", "t2"}

\* Credentials, as their characters: a well-formed one, one that has the letters
\* of the test marker but not its underscore, one that is no secret key.
SecretKeys ==
    { <<"s", "k", "_", "l", "i", "v", "e", "_", "1">>,
      <<"s", "k", "_", "t", "e", "s", "t", "X">>,
      <<"p", "k", "_", "t", "e", "s", "t", "_", "1">> }

\* str.startswith(prefix)
StartsWith(text, prefix) ==
    Len(text) >= Len(prefix) /\ SubSeq(text, 1, Len(prefix)) = prefix

\* self.secret_key.startswith(("sk_test", "sk_live"))
HasKeyPrefix(secret_key) ==
    \/ StartsWith(secret_key, <<"s", "k", "_", "t", "e", "s", "t">>)
    \/ StartsWith(secret_key, <<"s", "k", "_", "l", "i", "v", "e">>)

\* base_url: str = "https://api.paystack.co/"
DefaultBaseUrl == PyStr("https://api.paystack.co/")
\* A base URL a caller passes explicitly.
OtherBaseUrl == PyStr("https://sandbox.test")

\* The base_url a constructor hands to BaseClient.__init__ when its caller gives none:
\* BaseClient has the production host as its default, the resource clients declare
\* base_url: str = None and pass it on.
BaseUrlDefault(cls) == IF cls = "BaseClient" THEN DefaultBaseUrl ELSE PyNone

HeaderNames == {"Authorization", "Content-Type", "User-Agent", "Idempotency-Key"}

\* The default headers of a new requests.Session().
NewSessionHeaders ==
    [h \in HeaderNames |->
        IF h = "User-Agent" THEN Header(<<"python-requests">>) ELSE NoHeader]

\* self.session.headers.update({...})
UpdatedHeaders(headers, secret_key) ==
    [h \in HeaderNames |->
        CASE h = "Authorization" -> Header(<<"Bearer ">> \o secret_key)
          [] h = "Content-Type" -> Header(<<"application/json">>)
          [] h = "User-Agent" -> Header(<<"paystack-client/1.0.0">>)
          [] OTHER -> headers[h]]

\* A slot no constructor has run for, and one whose constructor raised: raised
\* names the exception, and no object exists.
NoClient ==
    [exists |-> FALSE, raised |-> "none", cls |-> "none", secret_key |-> << >>,
     base_url |-> PyNone, timeout |-> 0, session |-> "none"]
FailedClient(cls, secret_key) ==
    [NoClient EXCEPT !.raised = "AuthenticationError", !.cls = cls,
                     !.secret_key = secret_key]
NoSession == [exists |-> FALSE, headers |-> [h \in HeaderNames |-> NoHeader]]

\* The slots are filled in order.
FreeSlot(c) ==
    /\ clients[c] = NoClient
    /\ c = "c2" => clients["c1"] # NoClient

\* The sessions a constructor can be given: none (it makes its own), or one that exists.
SessionArgs == {"new"} \cup {c \in ClientIds : sessions[c].exists}

\* BaseClient.__init__(secret_key, base_url, session, timeout) for the object in slot c;
\* base_url is Missing when the caller gives none.
Construct(c, cls, secret_key, base_url, session) ==
    /\ FreeSlot(c)
    /\ IF ~HasKeyPrefix(secret_key)
       THEN /\ clients' = [clients EXCEPT ![c] = FailedClient(cls, secret_key)]
            /\ UNCHANGED sessions
       ELSE LET sid == IF session = "new" THEN c ELSE session
                before == IF session = "new" THEN NewSessionHeaders
                          ELSE sessions[session].headers
            IN  /\ clients' = [clients EXCEPT ![c] =
                       [exists |-> TRUE, raised |-> "none", cls |-> cls,
                        secret_key |-> secret_key,
                        base_url |-> GetOr(base_url, BaseUrlDefault(cls)),
                        timeout |-> DefaultTimeout, session |-> sid]]
                /\ sessions' = [sessions EXCEPT ![sid] =
                       [exists |-> TRUE, headers |-> UpdatedHeaders(before, secret_key)]]
    /\ UNCHANGED <<pc, call, exchange, outcome, requests_sent, invocations, threads, probe>>

\* BaseClient(secret_key, base_url=..., session=...)
BaseClient_init ==
    \E c \in ClientIds, secret_key \in SecretKeys, base_url \in {Missing, OtherBaseUrl},
       session \in SessionArgs :
        Construct(c, "BaseClient", secret_key, base_url, session)

\* TransfersAPI(secret_key, session=...)
TransfersAPI_init ==
    \E c \in ClientIds, secret_key \in SecretKeys, session \in SessionArgs :
        Construct(c, "TransfersAPI", secret_key, Missing, session)

\* PaystackClient(secret_key, base_url=...): the client itself, then its resource
\* clients on the same session, with the same key and base_url.
PaystackClient_init ==
    \E secret_key \in SecretKeys, base_url \in {Missing, OtherBaseUrl} :
        /\ \A c \in ClientIds : clients[c] = NoClient
        /\ IF ~HasKeyPrefix(secret_key)
           THEN /\ clients' = [clients EXCEPT
                                  !["c1"] = FailedClient("PaystackClient", secret_key)]
                /\ UNCHANGED sessions
           ELSE LET url == GetOr(base_url, DefaultBaseUrl)
                    made(cls) ==
                        [exists |-> TRUE, raised |-> "none", cls |-> cls,
                         secret_key |-> secret_key, base_url |-> url, timeout |-> DefaultTimeout, session |-> "c1"]
                IN  /\ clients' = [clients EXCEPT !["c1"] = made("PaystackClient"),
                                                  !["c2"] = made("TransfersAPI")]
                    /\ sessions' = [sessions EXCEPT !["c1"] =
                           [exists |-> TRUE,
                            headers |-> UpdatedHeaders(
                                UpdatedHeaders(NewSessionHeaders, secret_key), secret_key)]]
        /\ UNCHANGED <<pc, call, exchange, outcome, requests_sent, invocations, threads, probe>>

---------------------------------------------------------------------------
\* BaseClient.request, step by step, for callers that run side by side.

\* endpoint.lstrip("/"), the endpoint given as its path segments and slashes
RECURSIVE Lstrip(_)
Lstrip(endpoint) ==
    IF endpoint # << >> /\ Head(endpoint) = "/" THEN Lstrip(Tail(endpoint)) ELSE endpoint

\* f"{self.base_url}/{endpoint}"
_build_url(base_url, endpoint) == <<Fmt(base_url), "/">> \o Lstrip(endpoint)

Endpoints == { <<"/", "transfer">> }
IdempotencyKeys == {PyNone, PyStr(""), PyStr("K1")}

\* if not private and "Authorization" in headers: headers.pop("Authorization")
PopAuthorization(headers, private) ==
    IF ~private /\ headers["Authorization"].present
    THEN [headers EXCEPT !["Authorization"] = NoHeader]
    ELSE headers

\* A request that sets the header whatever key it was given.
SetIdempotencyKey_always(headers, idempotency_key) ==
    [headers EXCEPT !["Idempotency-Key"] = Header(<<Fmt(idempotency_key)>>)]

\* if idempotency_key: headers["Idempotency-Key"] = idempotency_key
SetIdempotencyKey(headers, idempotency_key) ==
    IF Truthy(idempotency_key)
    THEN [headers EXCEPT !["Idempotency-Key"] = Header(<<Fmt(idempotency_key)>>)]
    ELSE headers

\* A request that edits the session's own header mapping, not a copy of it.
SessionHeadersAfter_no_copy(session_headers, headers) == headers

\* The session's default headers once request has edited its headers: request works
\* on self.session.headers.copy(), so they are what they were.
SessionHeadersAfter(session_headers, headers) == session_headers

\* The headers that leave with the HTTP request: Session.request merges the
\* session's default headers under the headers it is given.
MergedHeaders(session_headers, headers) ==
    [h \in HeaderNames |-> IF headers[h].present THEN headers[h] ELSE session_headers[h]]

\* The responses the callers of this part get.
OkResponse ==
    [status_code |-> 200, amzn |-> PyStr("amzn-1"), cfray |-> Missing,
     retry_after |-> NoHeader,
     body |-> [shape |-> "dict", status |-> PyTrue, message |-> PyStr("Declined"),
               data |-> NoData, meta |-> NoMapping, errors |-> NoMapping]]
ServerErrorResponse == [OkResponse EXCEPT !.status_code = 500, !.body.status = PyFalse]
ThreadResponses == {OkResponse, ServerErrorResponse}

NoHeaders == [h \in HeaderNames |-> NoHeader]
\* A caller and the locals of its call; seq numbers the calls in the order they began.
IdleThread ==
    [pc |-> "idle", seq |-> 0, client |-> "none", private |-> TRUE,
     idempotency_key |-> PyNone,
     url |-> << >>, headers |-> NoHeaders, wire |-> NoHeaders, resp |-> NoResponse,
     result |-> NoOutcome]

UnchangedCall == UNCHANGED <<pc, call, exchange, outcome, probe>>

\* url = self._build_url(endpoint); headers = self.session.headers.copy(), then the
\* two edits of headers: drop Authorization, add Idempotency-Key.
request_begin(t) ==
    /\ threads[t].pc = "idle"
    /\ invocations < MaxCalls
    /\ \E c \in ClientIds, endpoint \in Endpoints, private \in BOOLEAN,
          idempotency_key \in IdempotencyKeys :
        /\ clients[c].exists
        /\ LET sid == clients[c].session
               headers == SetIdempotencyKey(
                              PopAuthorization(sessions[sid].headers, private),
                              idempotency_key)
           IN  /\ threads' = [threads EXCEPT ![t] =
                      [IdleThread EXCEPT !.pc = "prepared", !.seq = invocations + 1,
                                         !.client = c,
                                         !.private = private,
                                         !.idempotency_key = idempotency_key,
                                         !.url = _build_url(clients[c].base_url, endpoint),
                                         !.headers = headers]]
               /\ sessions' = [sessions EXCEPT
                                  ![sid].headers = SessionHeadersAfter(@, headers)]
    /\ invocations' = invocations + 1
    /\ UnchangedCall
    /\ UNCHANGED <<requests_sent, clients>>

\* self.session.request(method, url, headers=headers, ...): the request leaves, or the
\* URL has no scheme (base_url None) and requests raises MissingSchema before sending.
request_send(t) ==
    LET th == threads[t]
        c == clients[th.client]
    IN  /\ th.pc = "prepared"
        /\ requests_sent' = requests_sent + 1
        /\ IF c.base_url = PyNone
           THEN threads' = [threads EXCEPT ![t].pc = "done",
                               ![t].result = request_failed("MissingSchema", c.timeout)]
           ELSE threads' = [threads EXCEPT ![t].pc = "sent",
                               ![t].wire = MergedHeaders(sessions[c.session].headers,
                                                         th.headers)]
        /\ UnchangedCall
        /\ UNCHANGED <<invocations, clients, sessions>>

\* A client that keeps the correlation id only for the first request it sent.
request_receive_first_id_only(t) ==
    /\ threads[t].pc = "sent"
    /\ \E resp \in ThreadResponses :
        threads' = [threads EXCEPT ![t].pc = "done", ![t].resp = resp,
                       ![t].result = [request(resp) EXCEPT
                                         !.request_id = IF requests_sent = 1 THEN @
                                                        ELSE PyNone]]
    /\ UnchangedCall
    /\ UNCHANGED <<requests_sent, invocations, clients, sessions>>

\* The response arrives and is classified.
request_receive(t) ==
    /\ threads[t].pc = "sent"
    /\ \E resp \in ThreadResponses :
        threads' = [threads EXCEPT ![t].pc = "done", ![t].resp = resp,
                                   ![t].result = request(resp)]
    /\ UnchangedCall
    /\ UNCHANGED <<requests_sent, invocations, clients, sessions>>

\* The exchange fails: an except clause raises NetworkError.
request_fail(t) ==
    /\ threads[t].pc = "sent"
    /\ threads' = [threads EXCEPT ![t].pc = "done",
           ![t].result = request_failed("ConnectionError", clients[threads[t].client].timeout)]
    /\ UnchangedCall
    /\ UNCHANGED <<requests_sent, invocations, clients, sessions>>

\* The caller has its result.
request_return(t) ==
    /\ threads[t].pc = "done"
    /\ threads' = [threads EXCEPT ![t] = IdleThread]
    /\ UnchangedCall
    /\ UNCHANGED <<requests_sent, invocations, clients, sessions>>

ClientInit ==
    /\ pc = "idle"
    /\ call = NoCall
    /\ exchange = NoExchange
    /\ outcome = NoOutcome
    /\ requests_sent = 0
    /\ invocations = 0
    /\ clients = [c \in ClientIds |-> NoClient]
    /\ sessions = [c \in ClientIds |-> NoSession]
    /\ threads = [t \in ThreadIds |-> IdleThread]
    /\ probe = NoProbe

ClientNext ==
    \/ BaseClient_init
    \/ TransfersAPI_init
    \/ PaystackClient_init
    \/ \E t \in ThreadIds :
        \/ request_begin(t)
        \/ request_send(t)
        \/ request_receive(t)
        \/ request_fail(t)
        \/ request_return(t)

ClientSpec == ClientInit /\ [][ClientNext]_vars

---------------------------------------------------------------------------
\* The calls.

\* The client the calls below are made on: built with a test key and an explicit base URL.
DefaultClient ==
    [exists |-> TRUE, raised |-> "none", cls |-> "BaseClient",
     secret_key |-> <<"s", "k", "_", "l", "i", "v", "e", "_", "1">>,
     base_url |-> OtherBaseUrl, timeout |-> DefaultTimeout, session |-> "c1"]

UnchangedClients == UNCHANGED <<clients, sessions, threads, probe>>

Init ==
    /\ pc = "idle"
    /\ call = NoCall
    /\ exchange = NoExchange
    /\ outcome = NoOutcome
    /\ requests_sent = 0
    /\ invocations = 0
    /\ clients = [c \in ClientIds |-> IF c = "c1" THEN DefaultClient ELSE NoClient]
    /\ sessions = [c \in ClientIds |->
                      IF c = "c1"
                      THEN [exists |-> TRUE,
                            headers |-> UpdatedHeaders(NewSessionHeaders,
                                                       DefaultClient.secret_key)]
                      ELSE NoSession]
    /\ threads = [t \in ThreadIds |-> IdleThread]
    /\ probe = NoProbe

\* A resource method: validate the required parameters, then self.request(method, path);
\* request builds the headers and enters session.request.
Invoke(api, method, endpoint, name, value) ==
    LET invalid == _validate_required_params(<<[name |-> name, value |-> value]>>)
    IN  /\ pc = "idle"
        /\ requests_sent < MaxCalls
        /\ call' = [api |-> api, method |-> method, endpoint |-> endpoint, arg |-> value]
        /\ exchange' = NoExchange
        /\ UnchangedClients
        /\ IF invalid # NoOutcome
           THEN /\ pc' = "done"
                /\ outcome' = invalid
                /\ UNCHANGED <<requests_sent, invocations>>
           ELSE /\ pc' = "sent"
                /\ outcome' = NoOutcome
                /\ invocations' = invocations + 1
                /\ requests_sent' = requests_sent + 1

\* TransactionsAPI.verify(reference)
verify ==
    \E reference \in ParamValues :
        Invoke("TransactionsAPI.verify", "GET", "transaction/verify/", "reference", reference)

\* RefundsAPI.fetch(refund_id)
fetch ==
    \E refund_id \in ParamValues :
        Invoke("RefundsAPI.fetch", "GET", "refund/", "refund_id", refund_id)

\* TransfersAPI.fetch_transfer(id_or_code)
fetch_transfer ==
    \E id_or_code \in ParamValues :
        Invoke("TransfersAPI.fetch_transfer", "GET", "transfer/", "id_or_code", id_or_code)

\* session.request returns a response: the rest of the try block classifies it.
Receive ==
    /\ pc = "sent"
    /\ \E resp \in Responses :
        /\ exchange' = [kind |-> "response", resp |-> resp, exc |-> "none"]
        /\ outcome' = request(resp)
    /\ requests_sent' = requests_sent + Retries(outcome')
    /\ pc' = "done"
    /\ UNCHANGED <<call, invocations>>
    /\ UnchangedClients

\* session.request raises: one of the except clauses turns it into a NetworkError.
TransportFailure ==
    /\ pc = "sent"
    /\ \E exc \in TransportExceptions :
        /\ exchange' = [kind |-> "exception", resp |-> NoResponse, exc |-> exc]
        /\ outcome' = request_failed(exc, clients["c1"].timeout)
    /\ requests_sent' = requests_sent + Retries(outcome')
    /\ pc' = "done"
    /\ UNCHANGED <<call, invocations>>
    /\ UnchangedClients

\* The caller has its result; the client is ready for the next call.
Finish ==
    /\ pc = "done"
    /\ pc' = "idle"
    /\ call' = NoCall
    /\ exchange' = NoExchange
    /\ outcome' = NoOutcome
    /\ UNCHANGED <<requests_sent, invocations>>
    /\ UnchangedClients

Next == verify \/ fetch \/ fetch_transfer \/ Receive \/ TransportFailure \/ Finish

Spec == Init /\ [][Next]_vars

---------------------------------------------------------------------------
\* The legacy client: BaseClient.request of api/core.py.

\* JSON null as a body.
NullBody == WithShape("NoneType")
LegacyBodies ==
    {Garbage, ListBody, NullBody}
    \cup [ shape : {"dict"},
           status : {Missing, PyTrue, PyFalse, PyNone, PyInt(0), PyStr("ok")},
           message : {Missing, PyStr("Declined")},
           data : {NoData, [shape |-> "list", status |-> Missing,
                            gateway_response |-> Missing]},
           meta : MetaValues,
           errors : {NoMapping} ]
LegacyStatusCodes == {200, 201, 302, 399, 400, 404, 500, 599}
Timeouts == {1, 10, 30}

\* response.raise_for_status() raises HTTPError
IsHttpError(status_code) == 400 <= status_code /\ status_code < 600

\* APIError(message) of api/exceptions.py
LegacyAPIError(message) == [NoOutcome EXCEPT !.raised = "APIError", !.message = message]

\* type(resp_json) as the f-string prints it
LegacyTypeName(resp_json) ==
    IF resp_json.shape = "list" THEN "<class 'list'>" ELSE "<class 'NoneType'>"

\* The except HTTPError clause: the message of the error body is appended when the
\* body parses and holds one; '"message" in error_json' raises TypeError on null.
LegacyHttpError(resp) ==
    LET error_msg == <<"HTTP error ", ToString(resp.status_code)>>
    IN  CASE resp.body.shape = "garbage" -> LegacyAPIError(error_msg)
          [] resp.body.shape = "NoneType" -> [NoOutcome EXCEPT !.raised = "TypeError"]
          [] resp.body.shape = "dict" /\ resp.body.message # Missing ->
                 LegacyAPIError(error_msg \o <<": ", Fmt(resp.body.message)>>)
          [] OTHER -> LegacyAPIError(error_msg)

\* The rest of request, for a response raise_for_status lets through.
LegacyBodyChecks(resp_json) ==
    IF resp_json.shape = "garbage"
    THEN LegacyAPIError(<<"Invalid JSON response: ", ParseErrorText>>)
    ELSE IF resp_json.shape # "dict"
    THEN LegacyAPIError(<<"Expected JSON object, got ", LegacyTypeName(resp_json)>>)
    ELSE IF resp_json.status = Missing \/ resp_json.message = Missing
    THEN LegacyAPIError(
             <<"Invalid Paystack response structure: missing 'status' or 'message'">>)
    ELSE IF ~Truthy(GetOr(resp_json.status, PyFalse))
    THEN LegacyAPIError(<<"Paystack API error: ",
                          Fmt(GetOr(resp_json.message, PyStr("Unknown API error")))>>)
    ELSE [NoOutcome EXCEPT !.returned = TRUE, !.data = resp_json.data,
                           !.meta = resp_json.meta,
                           !.message = <<Fmt(Get(resp_json.message))>>]

\* request, given what session.request did: exch is a response or an exception.
legacy_request(exch, timeout) ==
    IF exch.kind = "exception"
    THEN IF "Timeout" \in Bases(exch.exc)
         THEN LegacyAPIError(<<"Request timed out: ", ToString(timeout), "s: ", exch.exc>>)
         ELSE LegacyAPIError(<<"Request failed: ", exch.exc>>)
    ELSE IF IsHttpError(exch.resp.status_code)
    THEN LegacyHttpError(exch.resp)
    ELSE LegacyBodyChecks(exch.resp.body)

---------------------------------------------------------------------------
\* Calls of the validators, of the methods that check their arguments before they
\* call request, and of request when the transport fails or on the legacy client.

\* Longest list of required parameters the model passes.
MaxParams == 3

ParamNames == <<"transaction", "currency", "email", "code", "reference">>
RequiredValues == ParamValues \cup { ParamStr(<<"\t", "\n">>), ParamStr(<<" ", "x">>) }

UnchangedProgram ==
    UNCHANGED <<pc, call, exchange, outcome, requests_sent, invocations,
                clients, sessions, threads>>

\* self._validate_required_params(name=value, ...)
validate_required_params ==
    /\ probe = NoProbe
    /\ \E n \in 1..MaxParams : \E values \in [1..n -> RequiredValues] :
        LET kwargs == [i \in 1..n |-> [name |-> ParamNames[i], value |-> values[i]]]
        IN  probe' = [fn |-> "_validate_required_params", input |-> kwargs,
                      result |-> _validate_required_params(kwargs), sent |-> 0]
    /\ UnchangedProgram

\* self._validate_amount(amount, currency)
validate_amount ==
    /\ probe = NoProbe
    /\ \E amount \in AmountValues, currency \in Currencies :
        probe' = [fn |-> "_validate_amount",
                  input |-> [amount |-> amount, currency |-> currency],
                  result |-> _validate_amount(amount, currency), sent |-> 0]
    /\ UnchangedProgram

\* self._validate_email(email)
client_validate_email ==
    /\ probe = NoProbe
    /\ \E email \in EmailValues :
        probe' = [fn |-> "_validate_email", input |-> email,
                  result |-> _validate_email(email), sent |-> 0]
    /\ UnchangedProgram

\* validate_email(email) of utils/helpers.py
helpers_validate_email ==
    /\ probe = NoProbe
    /\ \E email \in EmailValues :
        probe' = [fn |-> "validate_email", input |-> email,
                  result |-> validate_email(email), sent |-> 0]
    /\ UnchangedProgram

\* The first error in a list of checks made in order, NoOutcome when none raises.
RECURSIVE FirstRaised(_)
FirstRaised(checks) ==
    IF checks = << >> THEN NoOutcome
    ELSE IF Head(checks) # NoOutcome THEN Head(checks)
    ELSE FirstRaised(Tail(checks))

\* The ends of self.request once the arguments have passed: an outcome per response,
\* or the NetworkError of a failed exchange.
RequestResults ==
    {request(resp) : resp \in ThreadResponses}
    \cup {request_failed("ConnectionError", DefaultTimeout)}

\* A method that sends its request and only then reports what its checks found.
EndpointCall_request_first(fn, input, invalid) ==
    /\ probe = NoProbe
    /\ \E result \in RequestResults :
        probe' = [fn |-> fn, input |-> input,
                  result |-> IF invalid # NoOutcome THEN invalid ELSE result, sent |-> 1]
    /\ UnchangedProgram

\* A method with local checks: invalid is what they raise (NoOutcome when they pass);
\* self.request is the method's last statement.
EndpointCall(fn, input, invalid) ==
    /\ probe = NoProbe
    /\ IF invalid # NoOutcome
       THEN probe' = [fn |-> fn, input |-> input, result |-> invalid, sent |-> 0]
       ELSE \E result \in RequestResults :
                probe' = [fn |-> fn, input |-> input, result |-> result, sent |-> 1]
    /\ UnchangedProgram

MethodEmails == { ParamNone, ParamStr(<<"a", "@", "b", ".", "c", "o">>), ParamStr(<<"a", "b", ".", "c", "o">>) }
MethodAmounts == { ParamIntOf(<<"1", "0", "0">>), ParamIntOf(<<"0">>), ParamStr(<<"a", "b", "c">>) }
\* A currency code is one token of text.
CurrencyParam(currency) == IF currency = "" THEN ParamStr(<< >>) ELSE ParamStr(<<currency>>)

\* TransactionsAPI.initialize(email, amount, currency)
initialize ==
    \E email \in MethodEmails, amount \in MethodAmounts, currency \in {"NGN", "USD"} :
        EndpointCall("TransactionsAPI.initialize",
                     [email |-> email, amount |-> amount, currency |-> currency],
                     FirstRaised(<<_validate_email(email),
                                   _validate_amount(amount, currency)>>))

\* TransactionsAPI.partial_debit(authorization_code, currency, amount, email)
partial_debit ==
    \E email \in MethodEmails, amount \in MethodAmounts, currency \in {"NGN", "USD", ""} :
        EndpointCall("TransactionsAPI.partial_debit",
                     [email |-> email, amount |-> amount, currency |-> currency],
                     FirstRaised(<<
                         _validate_email(email),
                         _validate_required_params(
                             <<[name |-> "currency", value |-> CurrencyParam(currency)]>>),
                         _validate_amount(amount, currency),
                         IF currency \notin {"NGN", "GHS"}
                         THEN ValidationError(
                                  <<"currency must be 'NGN' or 'GHS' for partial debit">>,
                                  NoMapping, PyNone, EmptyBody, PyNone)
                         ELSE NoOutcome >>))

\* RefundsAPI.create(transaction, amount)
create ==
    \E transaction \in {ParamNone, ParamStr(<<"r", "1">>)},
       amount \in {ParamNone, ParamIntOf(<<"1", "0", "0">>), ParamIntOf(<<"0">>),
                   ParamIntOf(<<"-", "5">>)} :
        EndpointCall("RefundsAPI.create",
                     [transaction |-> transaction, amount |-> amount],
                     FirstRaised(<<
                         _validate_required_params(
                             <<[name |-> "transaction", value |-> transaction]>>),
                         IF amount # ParamNone /\ IntOf(amount) <= 0
                         THEN PaystackError("APIError", <<"amount must be greater than 0">>,
                                            PyNone, EmptyBody, PyNone)
                         ELSE NoOutcome >>))

\* CustomersAPI.update(code, first_name, phone)
update ==
    \E code \in {ParamStr(<< >>), ParamStr(<<"C", "1">>)},
       first_name \in {ParamNone, ParamStr(<< >>), ParamStr(<<"x">>)},
       phone \in {ParamNone, ParamStr(<<"0", "9">>)} :
        EndpointCall("CustomersAPI.update",
                     [code |-> code, first_name |-> first_name, phone |-> phone],
                     FirstRaised(<<
                         _validate_required_params(<<[name |-> "code", value |-> code]>>),
                         IF first_name = ParamNone /\ phone = ParamNone
                         THEN ValidationError(
                                  <<"At least one field must be provided for update">>,
                                  NoMapping, PyNone, EmptyBody, PyNone)
                         ELSE NoOutcome >>))

\* BaseClient.request on a client with the given timeout, when session.request raises.
request_raises ==
    /\ probe = NoProbe
    /\ \E exc \in TransportExceptions, timeout \in Timeouts :
        probe' = [fn |-> "request", input |-> [exc |-> exc, timeout |-> timeout],
                  result |-> request_failed(exc, timeout), sent |-> 1]
    /\ UnchangedProgram

\* request of the legacy client: session.request returns a response or raises.
legacy_request_call ==
    /\ probe = NoProbe
    /\ \E timeout \in {DefaultTimeout} :
        \/ \E exc \in TransportExceptions :
            LET exch == [kind |-> "exception", resp |-> NoResponse, exc |-> exc]
            IN  probe' = [fn |-> "api.request", input |-> exch,
                          result |-> legacy_request(exch, timeout), sent |-> 1]
        \/ \E status_code \in LegacyStatusCodes, body \in LegacyBodies :
            LET exch == [kind |-> "response",
                         resp |-> [NoResponse EXCEPT !.status_code = status_code,
                                                     !.body = body],
                         exc |-> "none"]
            IN  probe' = [fn |-> "api.request", input |-> exch,
                          result |-> legacy_request(exch, timeout), sent |-> 1]
    /\ UnchangedProgram

\* The caller has the result or the error.
call_returns ==
    /\ probe # NoProbe
    /\ probe' = NoProbe
    /\ UnchangedProgram

FunctionInit ==
    /\ pc = "idle"
    /\ call = NoCall
    /\ exchange = NoExchange
    /\ outcome = NoOutcome
    /\ requests_sent = 0
    /\ invocations = 0
    /\ clients = [c \in ClientIds |-> IF c = "c1" THEN DefaultClient ELSE NoClient]
    /\ sessions = [c \in ClientIds |->
                      IF c = "c1"
                      THEN [exists |-> TRUE,
                            headers |-> UpdatedHeaders(NewSessionHeaders,
                                                       DefaultClient.secret_key)]
                      ELSE NoSession]
    /\ threads = [t \in ThreadIds |-> IdleThread]
    /\ probe = NoProbe

FunctionNext ==
    \/ validate_required_params
    \/ validate_amount
    \/ client_validate_email
    \/ helpers_validate_email
    \/ initialize
    \/ partial_debit
    \/ create
    \/ update
    \/ request_raises
    \/ legacy_request_call
    \/ call_returns

FunctionSpec == FunctionInit /\ [][FunctionNext]_vars

---------------------------------------------------------------------------
\* Vocabulary of the properties.

\* The call is over and session.request had returned a response.
Received == pc = "done" /\ exchange.kind = "response"

\* The provider's envelope: a mapping with a boolean status and a message.
IsEnvelope(body) ==
    body.shape = "dict" /\ body.status \in {PyTrue, PyFalse} /\ body.message.type = "str"

\* data is a mapping whose status is one of the terminal negative markers.
HasTerminalStatus(body) ==
    /\ body.data.shape = "dict"
    /\ body.data.status \in {PyStr("failed"), PyStr("abandoned"), PyStr("cancelled")}

Success == outcome.returned /\ outcome.raised = "none"
Raised(kind) == ~outcome.returned /\ outcome.raised = kind

\* The correlation id of a response: x-amzn-requestid, else cf-ray, else None.
CorrelationId(resp) ==
    IF resp.amzn # Missing THEN resp.amzn
    ELSE IF resp.cfray # Missing THEN resp.cfray
    ELSE PyNone

---------------------------------------------------------------------------
\* C1  A received HTTP 200 or 201 response whose body is an envelope with
\* status=false ends in a raised ValidationError or APIError, never in a
\* returned (data, meta) pair.
C1_FalseStatusIsError ==
    ( /\ Received
      /\ exchange.resp.status_code \in {200, 201}
      /\ IsEnvelope(exchange.resp.body)
      /\ exchange.resp.body.status = PyFalse )
    => ( /\ ~outcome.returned
         /\ outcome.raised \in {"ValidationError", "APIError"} )

C1_Witness ==
    /\ Received
    /\ exchange.resp.status_code = 200
    /\ IsEnvelope(exchange.resp.body)
    /\ exchange.resp.body.status = PyFalse
    /\ exchange.resp.body.errors = NoMapping
    /\ Raised("APIError")

\* C2  A call that received a response with a well-formed envelope, whatever
\* the status code, ends in exactly one outcome: a returned pair and no error,
\* or no returned pair and one error of the nine kinds of the taxonomy.
C2_ExactlyOneOutcome ==
    ( Received /\ IsEnvelope(exchange.resp.body) )
    => \/ outcome.returned /\ outcome.raised = "none"
       \/ ~outcome.returned /\ outcome.raised \in ErrorKinds

C2_Witness ==
    /\ Received
    /\ IsEnvelope(exchange.resp.body)
    /\ exchange.resp.status_code = 300
    /\ Raised("APIError")

\* C3  For a received response with a parseable body and a status code outside
\* 200..299, the status code alone decides the error: 400 ValidationError,
\* 401 AuthenticationError, 404 NotFoundError, 429 RateLimitError, 500..599
\* ServerError, anything else APIError; the message is the body's message when
\* it has one and "HTTP <code> error" otherwise.
C3_StatusCodeDispatch ==
    LET resp == exchange.resp
        code == resp.status_code
        expected ==
            CASE code = 400 -> "ValidationError"
              [] code = 401 -> "AuthenticationError"
              [] code = 404 -> "NotFoundError"
              [] code = 429 -> "RateLimitError"
              [] code \in 500..599 -> "ServerError"
              [] OTHER -> "APIError"
    IN  ( Received /\ resp.body.shape # "garbage" /\ code \notin 200..299 )
        => /\ Raised(expected)
           /\ outcome.message =
                IF resp.body.shape = "dict" /\ resp.body.message # Missing
                THEN <<resp.body.message.str>>
                ELSE <<"HTTP ", ToString(code), " error">>

C3_Witness ==
    /\ Received
    /\ exchange.resp.status_code = 599
    /\ exchange.resp.body.shape = "dict"
    /\ exchange.resp.body.status = PyTrue
    /\ exchange.resp.body.message = Missing
    /\ Raised("ServerError")
    /\ outcome.message = <<"HTTP ", "599", " error">>

\* C4  A ValidationError raised from a received response carries exactly the
\* body's errors mapping as its field_errors (no field errors when the body
\* has no such mapping); and an HTTP 200/201 envelope with status=false whose
\* errors field is absent or no mapping raises the generic APIError, whose
\* message ends with the body's message.
C4_FieldErrorPropagation ==
    LET body == exchange.resp.body
    IN  /\ ( Received /\ outcome.raised = "ValidationError" )
           => outcome.field_errors =
                IF body.shape = "dict" /\ body.errors.shape = "dict"
                THEN body.errors ELSE EmptyDict
        /\ ( /\ Received
             /\ exchange.resp.status_code \in {200, 201}
             /\ IsEnvelope(body)
             /\ body.status = PyFalse )
           => IF body.errors.shape = "dict"
              THEN Raised("ValidationError")
              ELSE /\ Raised("APIError")
                   /\ outcome.message = <<"API request failed: ", body.message.str>>

C4_Witness ==
    /\ Received
    /\ exchange.resp.status_code = 200
    /\ exchange.resp.body.status = PyFalse
    /\ exchange.resp.body.errors = Dict({<<"email", "Invalid email address">>})
    /\ Raised("ValidationError")
    /\ outcome.field_errors = Dict({<<"email", "Invalid email address">>})

\* C5  An HTTP 200/201 envelope with status=true whose data is a mapping with
\* status "failed", "abandoned" or "cancelled" never yields success: it raises
\* TransactionFailureError, whose gateway_response is the data's
\* gateway_response text ("Transaction failed" when the data has none) and
\* whose message names the sub-status.
C5_MaskedTransactionFailure ==
    LET body == exchange.resp.body
    IN  ( /\ Received
          /\ exchange.resp.status_code \in {200, 201}
          /\ IsEnvelope(body)
          /\ body.status = PyTrue
          /\ HasTerminalStatus(body) )
        => /\ Raised("TransactionFailureError")
           /\ outcome.message = <<"Transaction failed: ", body.data.status.str>>
           /\ outcome.gateway_response =
                IF body.data.gateway_response # Missing
                THEN body.data.gateway_response
                ELSE PyStr("Transaction failed")

C5_Witness ==
    /\ Received
    /\ exchange.resp.status_code = 200
    /\ exchange.resp.body.status = PyTrue
    /\ exchange.resp.body.data.status = PyStr("cancelled")
    /\ exchange.resp.body.data.gateway_response = PyStr("Insufficient funds")
    /\ Raised("TransactionFailureError")
    /\ outcome.gateway_response = PyStr("Insufficient funds")

\* C6  An HTTP 200 envelope with status=true and no terminal negative
\* sub-status is returned: data is the envelope's data unchanged (None when the
\* envelope has none), meta is the envelope's meta, and the empty mapping when
\* the provider omits it.
C6_PassThroughSuccess ==
    LET body == exchange.resp.body
    IN  ( /\ Received
          /\ exchange.resp.status_code = 200
          /\ IsEnvelope(body)
          /\ body.status = PyTrue
          /\ ~HasTerminalStatus(body) )
        => /\ Success
           /\ outcome.data = IF body.data = NoData THEN NoneData ELSE body.data
           /\ outcome.meta = IF body.meta = NoMapping THEN EmptyDict ELSE body.meta

C6_Witness ==
    /\ Received
    /\ exchange.resp.status_code = 200
    /\ exchange.resp.body.status = PyTrue
    /\ exchange.resp.body.data.shape = "list"
    /\ exchange.resp.body.meta = NoMapping
    /\ Success
    /\ outcome.data.shape = "list"
    /\ outcome.meta = EmptyDict

\* C7  For every status code in 200..299, a well-formed envelope with
\* status=true and no terminal negative sub-status is returned as (data, meta),
\* and one with status=false fails by the errors / message rules (a
\* ValidationError for an errors mapping, the "API request failed" APIError
\* otherwise).
C7_Every2xxByBodyRules ==
    LET body == exchange.resp.body
    IN  ( Received /\ exchange.resp.status_code \in 200..299 /\ IsEnvelope(body) )
        => /\ ( body.status = PyTrue /\ ~HasTerminalStatus(body) ) => Success
           /\ body.status = PyFalse
                => IF body.errors.shape = "dict"
                   THEN Raised("ValidationError")
                   ELSE /\ Raised("APIError")
                        /\ outcome.message = <<"API request failed: ", body.message.str>>

\* C8  A received response whose body is not JSON raises InvalidResponseError
\* with the parse error text, the response's status code and its correlation
\* id, whatever the status code; nothing is returned.
C8_ParseFailureFirst ==
    ( Received /\ exchange.resp.body.shape = "garbage" )
    => /\ Raised("InvalidResponseError")
       /\ outcome.message = <<"Invalid JSON response: ", ParseErrorText>>
       /\ outcome.status_code = PyInt(exchange.resp.status_code)
       /\ outcome.request_id = CorrelationId(exchange.resp)

C8_Witness ==
    /\ Received
    /\ exchange.resp.body.shape = "garbage"
    /\ exchange.resp.status_code = 429
    /\ exchange.resp.amzn = Missing
    /\ exchange.resp.cfray = PyStr("ray-1")
    /\ Raised("InvalidResponseError")
    /\ outcome.request_id = PyStr("ray-1")

\* C9  For every status code, a received response whose parsed body is not a
\* mapping raises InvalidResponseError.
C9_ShapeBeforeStatus ==
    ( Received /\ exchange.resp.body.shape = "list" )
    => Raised("InvalidResponseError")

\* C10  An HTTP 200 envelope with status=true received by a call that is not a
\* payment confirmation (RefundsAPI.fetch, TransfersAPI.fetch_transfer) is
\* returned as (data, meta) whatever its data.status, and never raises
\* TransactionFailureError.
C10_TerminalMarkerScoped ==
    ( /\ Received
      /\ call.api \in {"RefundsAPI.fetch", "TransfersAPI.fetch_transfer"}
      /\ exchange.resp.status_code = 200
      /\ IsEnvelope(exchange.resp.body)
      /\ exchange.resp.body.status = PyTrue )
    => Success

\* C11  HTTP 429 with a parseable body raises RateLimitError whose retry_after is
\* the integer value of the Retry-After header when the header is there and
\* numeric, and None when it is missing or not numeric.
C11_RetryAfterExtraction ==
    LET header == exchange.resp.retry_after
    IN  ( /\ Received
          /\ exchange.resp.status_code = 429
          /\ exchange.resp.body.shape # "garbage" )
        => /\ Raised("RateLimitError")
           /\ outcome.retry_after =
                IF header.present /\ IsIntLiteral(header.text)
                THEN PyInt(DecimalValue(header.text))
                ELSE PyNone

\* C13 as stated  Every transport failure raises NetworkError with no status
\* code, and the message wraps the underlying exception's message.
C13_AlwaysWrapsUnderlying ==
    ( pc = "done" /\ exchange.kind = "exception" )
    => /\ Raised("NetworkError")
       /\ outcome.status_code = PyNone
       /\ \E i \in 1..Len(outcome.message) : outcome.message[i] = exchange.exc

\* C13  Every transport failure (no response received) raises NetworkError with
\* no status code, no correlation id and no response body; the message wraps
\* the underlying exception's message for connection-level and other transport
\* failures (a generic timeout included), and is the client's own timeout
\* message for a connect timeout and a read timeout.
C13_TransportFailureIsNetworkError ==
    ( pc = "done" /\ exchange.kind = "exception" )
    => /\ Raised("NetworkError")
       /\ exchange.resp = NoResponse
       /\ outcome.status_code = PyNone
       /\ outcome.request_id = PyNone
       /\ outcome.response = EmptyBody
       /\ outcome.message =
            CASE exchange.exc = "ConnectTimeout"
                   -> <<"Connection timed out - check your internet connection">>
              [] exchange.exc = "ReadTimeout"
                   -> <<"Request timed out after ", "10", " seconds">>
              [] exchange.exc = "ConnectionError"
                   -> <<"Connection error: ", exchange.exc>>
              [] OTHER -> <<"Request failed: ", exchange.exc>>

C13_Witness ==
    /\ pc = "done"
    /\ exchange.kind = "exception"
    /\ exchange.exc = "Timeout"
    /\ Raised("NetworkError")
    /\ outcome.message = <<"Request failed: ", "Timeout">>

C19_OneRoundTrip == requests_sent = invocations

C19_Witness ==
    /\ pc = "done"
    /\ exchange.kind = "response"
    /\ exchange.resp.status_code = 500
    /\ Raised("ServerError")
    /\ invocations = 2
    /\ requests_sent = 2


---------------------------------------------------------------------------
\* Clients, credentials and headers (ClientSpec).

\* The request of caller t has left for the network, with the headers in wire.
Left(t) == threads[t].pc \in {"sent", "done"} /\ threads[t].wire # NoHeaders
\* The client caller t calls.
ClientOf(t) == clients[threads[t].client]
\* 'Bearer <secret_key>'
Bearer(secret_key) == Header(<<"Bearer ">> \o secret_key)
\* The Idempotency-Key header a call given this key is to carry.
KeyHeader(idempotency_key) ==
    IF idempotency_key.type = "str" /\ idempotency_key.str # ""
    THEN Header(<<idempotency_key.str>>)
    ELSE NoHeader
\* The two recognized prefixes of a credential.
HasRecognizedPrefix(secret_key) ==
    \/ StartsWith(secret_key, <<"s", "k", "_", "t", "e", "s", "t", "_">>)
    \/ StartsWith(secret_key, <<"s", "k", "_", "l", "i", "v", "e", "_">>)

\* C12: constructing a client with a credential that starts with neither 'sk_test_'
\* nor 'sk_live_' fails with AuthenticationError before a session is configured; no
\* client object with an unrecognized credential exists.
C12_CredentialGate ==
    \A c \in ClientIds :
        (clients[c] # NoClient /\ ~HasRecognizedPrefix(clients[c].secret_key)) =>
            /\ ~clients[c].exists
            /\ clients[c].raised = "AuthenticationError"
            /\ ~sessions[c].exists

\* C15: a call with private=True sends 'Authorization: Bearer <secret_key>'; a call
\* with private=False sends its HTTP request without an Authorization header.
C15_AuthHeaderControl ==
    \A t \in ThreadIds :
        Left(t) =>
            threads[t].wire["Authorization"] =
                IF threads[t].private THEN Bearer(ClientOf(t).secret_key) ELSE NoHeader

\* C16: a call carries 'Idempotency-Key: K' exactly when it was given a non-empty
\* key K, in the headers it hands to the session and in the request that leaves; a
\* call without a key never carries the key of an earlier call.
C16_IdempotencyKeyPerCall ==
    \A t \in ThreadIds :
        /\ threads[t].pc # "idle" =>
            threads[t].headers["Idempotency-Key"] = KeyHeader(threads[t].idempotency_key)
        /\ Left(t) =>
            threads[t].wire["Idempotency-Key"] = KeyHeader(threads[t].idempotency_key)

\* A call without a key has left after an earlier call on the same client left with K1.
C16_Witness ==
    \E t, u \in ThreadIds :
        /\ Left(t) /\ Left(u)
        /\ threads[u].seq < threads[t].seq
        /\ threads[u].client = threads[t].client
        /\ threads[u].idempotency_key = PyStr("K1")
        /\ threads[u].wire["Idempotency-Key"] = Header(<<"K1">>)
        /\ threads[t].idempotency_key = PyNone
        /\ threads[t].wire["Idempotency-Key"] = NoHeader

\* C17: no step of BaseClient.request changes the client's secret_key, base_url or
\* timeout, or the default headers of any session.
C17_SharedStateReadOnly ==
    [][threads' # threads => (clients' = clients /\ sessions' = sessions)]_vars

\* A call that dropped Authorization and added a key has returned data, a second call
\* has ended in an error, and the session's default headers are those of construction.
C17_Witness ==
    \E t, u \in ThreadIds :
        /\ threads[t].pc = "done" /\ threads[u].pc = "done"
        /\ threads[t].client = threads[u].client
        /\ ~threads[t].private
        /\ threads[t].idempotency_key = PyStr("K1")
        /\ threads[t].result.returned
        /\ threads[u].result.raised = "ServerError"
        /\ sessions[ClientOf(t).session].headers =
               UpdatedHeaders(NewSessionHeaders, ClientOf(t).secret_key)

\* C18: when two calls run side by side through the same client, each one's outgoing
\* headers have exactly its own idempotency key (or none) and follow its own private
\* flag, its outcome is that of its own response, and the session's default headers
\* have none of the per-call changes.
C18_ConcurrentCallsDoNotInterfere ==
    \A t, u \in ThreadIds :
        (t # u /\ Left(t) /\ Left(u) /\ threads[t].client = threads[u].client) =>
            /\ threads[t].wire["Idempotency-Key"] = KeyHeader(threads[t].idempotency_key)
            /\ threads[t].wire["Authorization"].present = threads[t].private
            /\ (threads[t].pc = "done" /\ threads[t].resp # NoResponse) =>
                   threads[t].result = request(threads[t].resp)
            /\ sessions[ClientOf(t).session].headers["Idempotency-Key"] = NoHeader
            /\ sessions[ClientOf(t).session].headers["Authorization"].present

\* C20: every client constructed without an explicit base_url has the production host
\* as its base_url, and every URL built for it starts with that host.
C20_DefaultBaseEndpoint ==
    /\ \A c \in ClientIds :
        (clients[c].exists /\ clients[c].base_url # OtherBaseUrl) =>
            clients[c].base_url = DefaultBaseUrl
    /\ \A t \in ThreadIds :
        (threads[t].pc # "idle" /\ ClientOf(t).base_url # OtherBaseUrl) =>
            threads[t].url = <<DefaultBaseUrl.str, "/", "transfer">>


---------------------------------------------------------------------------
C29_SuccessRequiresTrueStatus ==
    (Received /\ Success) => exchange.resp.body.status = PyTrue

\* C30: every request sent with private=True carries 'Authorization: Bearer <key>'
\* with the secret key of the client the call was made on, whichever client was
\* constructed last.
C30_OwnCredential ==
    \A t \in ThreadIds :
        (Left(t) /\ threads[t].private) =>
            threads[t].wire["Authorization"] = Bearer(ClientOf(t).secret_key)


---------------------------------------------------------------------------
\* Validators, pre-flight checks and the legacy client (FunctionSpec).

\* None, the empty string, or a string of whitespace only.
Blank(value) ==
    \/ value.type = "NoneType"
    \/ value.type = "str" /\ Strip(value.chars) = << >>

\* C21: _validate_required_params takes None, '' and a whitespace-only string alike as
\* missing and every other value as present; with a missing parameter it raises one
\* ValidationError whose message lists the missing names in call order and whose
\* field_errors has 'This field is required' for each missing name and no other
\* entry; with none missing it raises nothing.
C21_RequiredParams ==
    probe.fn = "_validate_required_params" =>
        LET kwargs == probe.input
            IsBlank(kw) == Blank(kw.value)
            missing == SelectSeq(kwargs, IsBlank)
            IsName(part) == part # ", "
        IN  IF missing = << >>
            THEN probe.result = NoOutcome
            ELSE /\ probe.result.raised = "ValidationError"
                 /\ ~probe.result.returned
                 /\ Head(probe.result.message) = "Missing required parameters: "
                 /\ SelectSeq(Tail(probe.result.message), IsName)
                        = [i \in 1..Len(missing) |-> missing[i].name]
                 /\ Len(probe.result.message) = 2 * Len(missing)
                 /\ probe.result.field_errors =
                        Dict({<<missing[i].name, "This field is required">> :
                                 i \in 1..Len(missing)})

\* None, a tab and a newline, and a reference: the first two are named, in call order.
C21_Witness ==
    /\ probe.fn = "_validate_required_params"
    /\ Len(probe.input) = 3
    /\ probe.input[1].value = ParamNone
    /\ probe.input[2].value = ParamStr(<<"\t", "\n">>)
    /\ probe.input[3].value = ParamStr(<<"r", "1">>)
    /\ probe.result.message =
           <<"Missing required parameters: ", "transaction", ", ", "currency">>
    /\ probe.result.field_errors =
           Dict({<<"transaction", "This field is required">>,
                 <<"currency", "This field is required">>})

\* The arguments of a method call that its local validation rejects.
LocallyRejected ==
    CASE probe.fn = "TransactionsAPI.initialize" ->
             \/ Blank(probe.input.email)
             \/ ~FullMatch(probe.input.email.chars)
             \/ IntFails(probe.input.amount)
             \/ IntOf(probe.input.amount) <= 0
      [] probe.fn = "TransactionsAPI.partial_debit" ->
             probe.input.currency \notin {"NGN", "GHS"}
      [] probe.fn = "RefundsAPI.create" ->
             probe.input.amount # ParamNone /\ IntOf(probe.input.amount) <= 0
      [] probe.fn = "CustomersAPI.update" ->
             probe.input.first_name = ParamNone /\ probe.input.phone = ParamNone
      [] OTHER -> FALSE

\* C22: a method call whose local validation rejects its arguments raises its error
\* without a call to the transport.
C22_PreflightBeforeNetwork ==
    LocallyRejected =>
        /\ probe.sent = 0
        /\ ~probe.result.returned
        /\ probe.result.raised \in {"ValidationError", "APIError"}
        /\ probe.result.status_code = PyNone

\* RefundsAPI.create with amount 0 raised APIError and sent nothing.
C22_Witness ==
    /\ probe.fn = "RefundsAPI.create"
    /\ probe.input.transaction = ParamStr(<<"r", "1">>)
    /\ probe.input.amount = ParamIntOf(<<"0">>)
    /\ probe.result.raised = "APIError"
    /\ probe.result.message = <<"amount must be greater than 0">>
    /\ probe.sent = 0

\* The minimum of a currency: 100 for NGN, 50 for USD, 100 for GHS and the others.
ClaimedMinimum(currency) == IF currency = "USD" THEN 50 ELSE 100

\* C23: _validate_amount accepts an amount exactly when it parses as an integer that
\* is at least the currency's minimum; a zero or negative amount, and a string with
\* a character no integer literal has, is rejected, and every rejection is a
\* ValidationError whose field_errors has the key 'amount'.
C23_AmountValidation ==
    probe.fn = "_validate_amount" =>
        LET amount == probe.input.amount
            currency == probe.input.currency
            accepted == probe.result = NoOutcome
        IN  /\ accepted <=> ( /\ ~IntFails(amount)
                              /\ IntOf(amount) >= ClaimedMinimum(currency) )
            /\ (~IntFails(amount) /\ IntOf(amount) <= 0) => ~accepted
            /\ ( /\ amount.type = "str"
                 /\ \E i \in 1..Len(amount.chars) :
                        ~IsDigit(amount.chars[i])
                        /\ amount.chars[i] \notin Whitespace \cup {"+", "-", "_"} )
               => ~accepted
            /\ ~accepted =>
                  /\ probe.result.raised = "ValidationError"
                  /\ \E item \in probe.result.field_errors.items : item[1] = "amount"

\* 49 USD subunits: one below the minimum.
C23_Witness ==
    /\ probe.fn = "_validate_amount"
    /\ probe.input.amount = ParamIntOf(<<"4", "9">>)
    /\ probe.input.currency = "USD"
    /\ probe.result.raised = "ValidationError"
    /\ probe.result.field_errors =
           Dict({<<"amount", "Minimum amount is 50 USD subunits">>})

\* C25: validate_email and BaseClient._validate_email give the same verdict; a value
\* that is None, empty, not a string or longer than 254 characters is rejected with
\* 'Email is required'; any other string is rejected with 'Invalid email format'
\* when it does not have the user@domain.tld shape and accepted when it has.
C25_EmailValidation ==
    probe.fn \in {"_validate_email", "validate_email"} =>
        LET email == probe.input
        IN  /\ probe.result = validate_email(email)
            /\ probe.result = _validate_email(email)
            /\ IF \/ Blank(email) /\ email.chars = << >>
                  \/ email.type # "str"
                  \/ Len(email.chars) > 254
               THEN /\ probe.result.raised = "ValidationError"
                    /\ probe.result.message = <<"Email is required">>
               ELSE IF ~FullMatch(email.chars)
               THEN /\ probe.result.raised = "ValidationError"
                    /\ probe.result.message = <<"Invalid email format">>
               ELSE probe.result = NoOutcome

\* C27 as claimed: the NetworkError of a connect timeout and of a read timeout each
\* states the configured timeout duration.
C27_TimeoutMessagesStateDuration ==
    ( /\ probe.fn = "request"
      /\ probe.input.exc \in {"ConnectTimeout", "ReadTimeout"} )
    => /\ probe.result.raised = "NetworkError"
       /\ \E i \in 1..Len(probe.result.message) :
              probe.result.message[i] = ToString(probe.input.timeout)

\* C27: a read timeout raises NetworkError 'Request timed out after <timeout> seconds'
\* with the client's configured timeout; a connect timeout raises NetworkError with
\* the fixed text 'Connection timed out - check your internet connection', which
\* names the timeout but not its duration, and never with the 'Connection error'
\* message of the other connection failures.
C27_TimeoutMessages ==
    probe.fn = "request" =>
        /\ probe.result.raised = "NetworkError"
        /\ probe.input.exc = "ReadTimeout" =>
               probe.result.message =
                   <<"Request timed out after ", ToString(probe.input.timeout), " seconds">>
        /\ probe.input.exc = "ConnectTimeout" =>
               probe.result.message =
                   <<"Connection timed out - check your internet connection">>
        /\ probe.input.exc # "ConnectionError" =>
               Head(probe.result.message) # "Connection error: "

\* A connect timeout on a client whose timeout is 30.
C27_Witness ==
    /\ probe.fn = "request"
    /\ probe.input.exc = "ConnectTimeout"
    /\ probe.input.timeout = 30
    /\ probe.result.raised = "NetworkError"
    /\ probe.result.message = <<"Connection timed out - check your internet connection">>

\* C28: the legacy request returns a PaystackResponse only for a response without an
\* HTTP error status whose body is a JSON object with both status and message and a
\* truthy status; in every other case it raises APIError, and an HTTP error status
\* is reported whatever the body is.
C28_LegacyRequest ==
    probe.fn = "api.request" =>
        LET exch == probe.input
            ok == /\ exch.kind = "response"
                  /\ ~(400 <= exch.resp.status_code /\ exch.resp.status_code <= 599)
                  /\ exch.resp.body.shape = "dict"
                  /\ exch.resp.body.status # Missing
                  /\ exch.resp.body.message # Missing
                  /\ Truthy(exch.resp.body.status)
        IN  /\ probe.result.returned <=> ok
            /\ ~ok => probe.result.raised = "APIError"
            /\ ( /\ exch.kind = "response"
                 /\ 400 <= exch.resp.status_code /\ exch.resp.status_code <= 599 )
               => /\ probe.result.raised = "APIError"
                  /\ Head(probe.result.message) = "HTTP error "

====
